---- MODULE Spec2Model ----
(***************************************************************************)
(* Model of the pairwise-ranking engine of everyday-elo-mobile             *)
(* (src/lib/elo.ts) and of the pair selection RankScreen performs inline   *)
(* (src/unnamed/part_009, src/app/rank/[id].tsx).                          *)
(*                                                                         *)
(* JavaScript arrays are 0-based, TLA+ sequences 1-based: a position p of  *)
(* the source is position p + 1 here; ids keep the source's 0-based index. *)
(***************************************************************************)
EXTENDS Integers, Sequences, FiniteSets, TLC

\* ---------------------------------------------------------------- bounds
\* largest collection handed to applyComparison / isRankingStable in Spec
MaxItems == 3
\* largest collection handed to the pair selectors in SpecSelect
MaxPool == 5
\* largest name list handed to initializeItems in SpecFlow and SpecCalls
MaxNames == 3
\* longest sequence of applyComparison calls in SpecCalls
MaxCalls == 3
\* largest list RankScreen loads and most items it adds in SpecScreen
MaxListItems == 3
MaxAdds == 1
MaxChoices == 2
MaxFailures == 1
MaxTextLen == 2
MaxLines == 2
MaxEntries == 3
MaxInitCalls == 2
MaxClock == 1
MaxGap == 6
MaxCount == 20
MaxTaps == 3
MaxInFlight == 2
MaxItemActions == 1
MaxRankingCalls == 2
MaxIncrements == 3
\* the loop guard iterations < maxIterations of the ranking flow (50 in the
\* test), lowered to keep the flow finite
MaxIterations == 10

\* ratings and comparison counts of the collections Init draws: the rating
\* distances 1, 719 and 720 lie on both sides of the distance from which a
\* rounded Elo swing is 0
InitRatings == {780, 781, 1500}
InitComparisons == {0, 1, 2}
\* ratings and comparison counts of the collections InitSelect draws: the
\* distances 200, 520 and 720 reach the express threshold and beyond
PoolRatings == {780, 1300, 1500}
PoolComparisons == {0, 1}

\* ------------------------------------------------------------- constants
DEFAULT_RATING == 1500
K_FACTOR == 32

\* names handed to initializeItems, by position
ItemNames == <<"A", "B", "C", "D", "E", "F", "G">>
\* the clock reading Date.now() returns during a session
Now == 0
\* an id that no item carries
MissingId == "missing"

\* ------------------------------------------------------------ rating model
\* HalfStep[n] is the largest integer d with
\*     K_FACTOR * expectedScore(0, d) = 32 / (1 + 10^(d/400)) > n - 1/2,
\* i.e. floor(400 * log10((65 - 2n) / (2n - 1))).  No integer d makes the two
\* sides equal (10^(d/400) is rational only for d a multiple of 400).
HalfStep ==
  << 719, 523, 428, 364, 314, 273, 237, 205, 176, 149, 124, 100, 77, 54, 32,
     10, -11, -33, -55, -78, -101, -125, -150, -177, -206, -238, -274, -315,
     -365, -429, -524, -720 >>

\* K_FACTOR * expectedScore(ratingA, ratingB) rounded to the nearest integer:
\* the number of half-steps n - 1/2 (n = 1..K_FACTOR) lying below it
ScoreSteps(ratingA, ratingB) ==
  Cardinality({n \in 1..K_FACTOR : ratingB - ratingA <= HalfStep[n]})

\* calculateNewRatings taking both expected scores as 0.5
calculateNewRatings_evenExpectation(winner, loser) ==
  [winnerRating |-> winner.rating + K_FACTOR - K_FACTOR \div 2,
   loserRating |-> loser.rating - K_FACTOR \div 2]

\* calculateNewRatings with the arguments of both expectedScore calls swapped
calculateNewRatings_swappedExpectation(winner, loser) ==
  LET expectedWinner == ScoreSteps(loser.rating, winner.rating)
      expectedLoser == ScoreSteps(winner.rating, loser.rating)
  IN [winnerRating |-> winner.rating + K_FACTOR - expectedWinner,
      loserRating |-> loser.rating - expectedLoser]

\* calculateNewRatings(winner, loser) with the default kFactor:
\*   Math.round(winner.rating + K * (1 - expectedWinner))
\*     = winner.rating + K - (K * expectedWinner rounded)
\*   Math.round(loser.rating + K * (0 - expectedLoser))
\*     = loser.rating - (K * expectedLoser rounded)
calculateNewRatings(winner, loser) ==
  LET expectedWinner == ScoreSteps(winner.rating, loser.rating)
      expectedLoser == ScoreSteps(loser.rating, winner.rating)
  IN [winnerRating |-> winner.rating + K_FACTOR - expectedWinner,
      loserRating |-> loser.rating - expectedLoser]

\* ------------------------------------------------- expectedScore, exactly
\* The value of expectedScore is a quotient of sums of powers of
\* q = 10^(1/400).  A sum of powers is kept as the function from its
\* exponents to their non-zero integer coefficients, so two sums are the same
\* number exactly when they are the same function; the double arithmetic of
\* the code follows these values to a few units of 2^-53.
Power(exponent) == [e \in {exponent} |-> 1]

Coefficient(sum, e) == IF e \in DOMAIN sum THEN sum[e] ELSE 0

NonZero(exponents, coefficient) ==
  [e \in {x \in exponents : coefficient[x] # 0} |-> coefficient[e]]

Plus(sumA, sumB) ==
  LET exponents == DOMAIN sumA \cup DOMAIN sumB
  IN NonZero(exponents,
             [e \in exponents |-> Coefficient(sumA, e) + Coefficient(sumB, e)])

RECURSIVE SumOver(_, _)
SumOver(terms, value) ==
  IF terms = {} THEN 0
  ELSE LET t == CHOOSE x \in terms : TRUE
       IN value[t] + SumOver(terms \ {t}, value)

Times(sumA, sumB) ==
  LET products == (DOMAIN sumA) \X (DOMAIN sumB)
      exponents == {t[1] + t[2] : t \in products}
      value == [t \in products |-> sumA[t[1]] * sumB[t[2]]]
  IN NonZero(exponents,
             [e \in exponents |->
                SumOver({t \in products : t[1] + t[2] = e}, value)])

\* a / b + c / d
QuotientPlus(x, y) ==
  [num |-> Plus(Times(x.num, y.den), Times(y.num, x.den)),
   den |-> Times(x.den, y.den)]

\* num / den = n / d for integers n, d
QuotientIs(x, n, d) ==
  /\ DOMAIN x.den # {}
  /\ Times(x.num, [e \in {0} |-> d]) = Times(x.den, [e \in {0} |-> n])

\* expectedScore reading the exponent from ratingB alone
expectedScore_opponentOnly(ratingA, ratingB) ==
  [num |-> Power(0), den |-> Plus(Power(0), Power(ratingB))]

\* expectedScore(ratingA, ratingB):
\*   1 / (1 + Math.pow(10, (ratingB - ratingA) / 400))
expectedScore(ratingA, ratingB) ==
  [num |-> Power(0), den |-> Plus(Power(0), Power(ratingB - ratingA))]

\* ---------------------------------------------------------------- arrays
\* Array.prototype.find by id: the first position holding the id, 0 if none
RECURSIVE FindFrom(_, _, _)
FindFrom(its, id, p) ==
  IF p > Len(its) THEN 0
  ELSE IF its[p].id = id THEN p
  ELSE FindFrom(its, id, p + 1)

Find(its, id) == FindFrom(its, id, 1)

\* Array.prototype.sort with a comparator (a, b) => key(a) - key(b) is a
\* stable ascending sort by key.  keys[p] is the key of position p;
\* SortedPositions(keys) lists the positions in sorted order.  A position goes
\* in front of the first one whose key is strictly greater.
RECURSIVE InsertPosition(_, _, _)
InsertPosition(p, sorted, keys) ==
  IF sorted = <<>> THEN <<p>>
  ELSE IF keys[Head(sorted)] > keys[p] THEN <<p>> \o sorted
  ELSE <<Head(sorted)>> \o InsertPosition(p, Tail(sorted), keys)

RECURSIVE SortPrefix(_, _)
SortPrefix(keys, n) ==
  IF n = 0 THEN <<>>
  ELSE InsertPosition(n, SortPrefix(keys, n - 1), keys)

SortedPositions(keys) == SortPrefix(keys, Len(keys))

\* the elements of s in ascending order of keys, ties in s's order
SortByKey(s, keys) ==
  LET perm == SortedPositions(keys)
  IN [i \in 1..Len(s) |-> s[perm[i]]]

\* Array.prototype.filter
RECURSIVE Filter(_, _)
Filter(s, keep) ==
  IF s = <<>> THEN <<>>
  ELSE IF keep[1] THEN <<Head(s)>> \o Filter(Tail(s), Tail(keep))
  ELSE Filter(Tail(s), Tail(keep))

Abs(x) == IF x < 0 THEN -x ELSE x

Min(a, b) == IF a < b THEN a ELSE b

\* ------------------------------------------------------------ engine (lib)
\* applyComparison with the guard written !winner && !loser: a call with one
\* unknown id returns the collection instead of throwing
applyComparison_oneUnknownAccepted(its, winnerId, loserId) ==
  LET w == Find(its, winnerId)
      l == Find(its, loserId)
  IN IF w = 0 /\ l = 0
     THEN [threw |-> TRUE, error |-> "Invalid winner or loser ID",
           value |-> <<>>, items |-> its]
     ELSE IF w = 0 \/ l = 0
     THEN [threw |-> FALSE, error |-> "", value |-> its, items |-> its]
     ELSE LET new == calculateNewRatings(its[w], its[l])
              updated ==
                [p \in 1..Len(its) |->
                   IF its[p].id = winnerId
                   THEN [its[p] EXCEPT !.rating = new.winnerRating,
                                       !.comparisons = its[p].comparisons + 1]
                   ELSE IF its[p].id = loserId
                   THEN [its[p] EXCEPT !.rating = new.loserRating,
                                       !.comparisons = its[p].comparisons + 1]
                   ELSE its[p]]
          IN [threw |-> FALSE, error |-> "", value |-> updated, items |-> its]

\* applyComparison writing the two updates into the array it was given
applyComparison_inPlace(its, winnerId, loserId) ==
  LET w == Find(its, winnerId)
      l == Find(its, loserId)
  IN IF w = 0 \/ l = 0
     THEN [threw |-> TRUE, error |-> "Invalid winner or loser ID",
           value |-> <<>>, items |-> its]
     ELSE LET new == calculateNewRatings(its[w], its[l])
              updated ==
                [p \in 1..Len(its) |->
                   IF its[p].id = winnerId
                   THEN [its[p] EXCEPT !.rating = new.winnerRating,
                                       !.comparisons = its[p].comparisons + 1]
                   ELSE IF its[p].id = loserId
                   THEN [its[p] EXCEPT !.rating = new.loserRating,
                                       !.comparisons = its[p].comparisons + 1]
                   ELSE its[p]]
          IN [threw |-> FALSE, error |-> "", value |-> updated,
              items |-> updated]

\* applyComparison(items, winnerId, loserId).  threw/error: the exception;
\* value: the returned array; items: the argument array after the call.
applyComparison(its, winnerId, loserId) ==
  LET w == Find(its, winnerId)
      l == Find(its, loserId)
  IN IF w = 0 \/ l = 0
     THEN [threw |-> TRUE, error |-> "Invalid winner or loser ID",
           value |-> <<>>, items |-> its]
     ELSE LET new == calculateNewRatings(its[w], its[l])
              updated ==
                [p \in 1..Len(its) |->
                   IF its[p].id = winnerId
                   THEN [its[p] EXCEPT !.rating = new.winnerRating,
                                       !.comparisons = its[p].comparisons + 1]
                   ELSE IF its[p].id = loserId
                   THEN [its[p] EXCEPT !.rating = new.loserRating,
                                       !.comparisons = its[p].comparisons + 1]
                   ELSE its[p]]
          IN [threw |-> FALSE, error |-> "", value |-> updated, items |-> its]

\* initializeItems with the id built from the name instead of the index
initializeItems_idFromName(names, now) ==
  [p \in 1..Len(names) |->
     [id |-> "item-" \o names[p] \o "-" \o ToString(now),
      name |-> names[p],
      rating |-> DEFAULT_RATING,
      comparisons |-> 0]]

\* initializeItems(names) called at clock reading now
initializeItems(names, now) ==
  [p \in 1..Len(names) |->
     [id |-> "item-" \o ToString(p - 1) \o "-" \o ToString(now),
      name |-> names[p],
      rating |-> DEFAULT_RATING,
      comparisons |-> 0]]

\* getRankedItems with the comparator a.rating - b.rating
getRankedItems_ascending(its) ==
  SortByKey(its, [p \in 1..Len(its) |-> its[p].rating])

\* getRankedItems(items): a sorted copy, comparator b.rating - a.rating
getRankedItems(its) ==
  SortByKey(its, [p \in 1..Len(its) |-> 0 - its[p].rating])

\* items.sort(...) without the copy: Array.prototype.sort orders the array it
\* is called on
sortedCopy_inPlace(its) ==
  [value |-> getRankedItems(its), items |-> getRankedItems(its)]

\* [...items].sort(...): what the call returns and what it leaves of the
\* array it was given
sortedCopy(its) ==
  [value |-> getRankedItems(its), items |-> its]

\* selectNextPair without the filter that takes first out of others
selectCandidates_firstKept(its) ==
  LET sorted == SortByKey(its, [p \in 1..Len(its) |-> its[p].comparisons])
      first == sorted[1]
      byDistance ==
        SortByKey(its,
                  [p \in 1..Len(its) |-> Abs(its[p].rating - first.rating)])
  IN [first |-> first,
      candidates |-> SubSeq(byDistance, 1, Min(3, Len(byDistance)))]

\* selectNextPair with the comparator b.comparisons - a.comparisons
selectCandidates_mostCompared(its) ==
  LET sorted == SortByKey(its, [p \in 1..Len(its) |-> 0 - its[p].comparisons])
      first == sorted[1]
      others == Filter(its, [p \in 1..Len(its) |-> its[p].id # first.id])
      byDistance ==
        SortByKey(others,
                  [p \in 1..Len(others) |-> Abs(others[p].rating - first.rating)])
  IN [first |-> first,
      candidates |-> SubSeq(byDistance, 1, Min(3, Len(byDistance)))]

\* selectNextPair with slice(0, 4)
selectCandidates_fourClosest(its) ==
  LET sorted == SortByKey(its, [p \in 1..Len(its) |-> its[p].comparisons])
      first == sorted[1]
      others == Filter(its, [p \in 1..Len(its) |-> its[p].id # first.id])
      byDistance ==
        SortByKey(others,
                  [p \in 1..Len(others) |-> Abs(others[p].rating - first.rating)])
  IN [first |-> first,
      candidates |-> SubSeq(byDistance, 1, Min(4, Len(byDistance)))]

\* selectNextPair up to the random draws: the least compared item and the
\* closest opponents
selectCandidates(its) ==
  LET sorted == SortByKey(its, [p \in 1..Len(its) |-> its[p].comparisons])
      first == sorted[1]
      others == Filter(its, [p \in 1..Len(its) |-> its[p].id # first.id])
      byDistance ==
        SortByKey(others,
                  [p \in 1..Len(others) |-> Abs(others[p].rating - first.rating)])
  IN [first |-> first,
      candidates |-> SubSeq(byDistance, 1, Min(3, Len(byDistance)))]

\* selectNextPair(items): <<>> is null.  pick is
\* Math.floor(Math.random() * candidates.length), firstLeads is
\* Math.random() > 0.5.
selectNextPair(its, pick, firstLeads) ==
  IF Len(its) < 2 THEN <<>>
  ELSE LET sel == selectCandidates(its)
           second == sel.candidates[pick + 1]
       IN IF firstLeads THEN <<sel.first, second>> ELSE <<second, sel.first>>

\* the values Math.floor(Math.random() * candidates.length) can take
Picks(its) ==
  IF Len(its) < 2 THEN {0}
  ELSE 0..(Len(selectCandidates(its).candidates) - 1)

\* Math.ceil of the number num / den (den > 0)
ceil(num, den) == 0 - ((0 - num) \div den)

\* estimateComparisonsNeeded(itemCount) == Math.ceil(itemCount * 2)
estimateComparisonsNeeded(itemCount) == ceil(itemCount * 2, 1)

\* getUserListsWithStatus: const estimatedComparisons = itemCount * 2
estimatedComparisons(itemCount) == itemCount * 2

\* a progress estimate of one and a half comparisons per item
screenEstimated_threeHalves(its) == ceil(Len(its) * 3, 2)

\* RankScreen: const estimated = Math.ceil(rankedItems.length * 2)
screenEstimated(its) == ceil(Len(its) * 2, 1)

\* isRankingStable with the threshold comparisons >= 1
RECURSIVE isRankingStable_onceIsEnough(_)
isRankingStable_onceIsEnough(its) ==
  IF its = <<>> THEN TRUE
  ELSE IF ~(Head(its).comparisons >= 1) THEN FALSE
  ELSE isRankingStable_onceIsEnough(Tail(its))

\* isRankingStable(items): Array.prototype.every, left to right
RECURSIVE isRankingStable(_)
isRankingStable(its) ==
  IF its = <<>> THEN TRUE
  ELSE IF ~(Head(its).comparisons >= 2) THEN FALSE
  ELSE isRankingStable(Tail(its))

\* ------------------------------------------------------------- RankScreen
\* RankScreen.selectNextPair(items, skipObvious) up to the random draws.
\* Entries carry originalIndex (here the 1-based position).
screenCandidates(its, skipObvious) ==
  LET indexed == [p \in 1..Len(its) |->
                    [rating |-> its[p].rating,
                     comparisons |-> its[p].comparisons,
                     originalIndex |-> p]]
      sorted == SortByKey(indexed,
                          [p \in 1..Len(its) |-> indexed[p].comparisons])
      first == sorted[1]
      rest == Tail(sorted)
      closeOthers ==
        Filter(rest, [p \in 1..Len(rest) |->
                        Abs(rest[p].rating - first.rating) < 200])
      others == IF skipObvious /\ Len(rest) > 1 /\ Len(closeOthers) > 0
                THEN closeOthers ELSE rest
      byDistance ==
        SortByKey(others,
                  [p \in 1..Len(others) |-> Abs(others[p].rating - first.rating)])
  IN [first |-> first,
      candidates |-> SubSeq(byDistance, 1, Min(3, Len(byDistance)))]

\* the currentPair after RankScreen.selectNextPair: unchanged when the
\* function returns early, else the two original positions
screenSelectNextPair(its, skipObvious, pick, firstLeads, current) ==
  IF Len(its) < 2 THEN current
  ELSE LET sel == screenCandidates(its, skipObvious)
           second == sel.candidates[pick + 1]
       IN IF firstLeads
          THEN <<sel.first.originalIndex, second.originalIndex>>
          ELSE <<second.originalIndex, sel.first.originalIndex>>

ScreenPicks(its, skipObvious) ==
  IF Len(its) < 2 THEN {0}
  ELSE 0..(Len(screenCandidates(its, skipObvious).candidates) - 1)

\* ------------------------------------------------------------------ state
VARIABLES
  items,        \* the collection the caller holds (RankScreen: rankedItems)
  call,         \* the last call made: operation and arguments
  applied,      \* what the last applyComparison call did
  pair,         \* the last value of lib selectNextPair, <<>> for null
  currentPair,  \* RankScreen's currentPair (1-based positions), <<>> for null
  stable,       \* the last value of isRankingStable
  ranked,       \* the last value of getRankedItems
  iterations,   \* comparisons recorded so far
  pc,           \* position of the caller's loop
  seen,         \* the pair keys collected by the coverage loop
  clock,        \* the reading Date.now() returns
  loading,      \* RankScreen.loading
  isComplete,   \* RankScreen.isComplete
  comparisons,  \* RankScreen.comparisons
  expressMode,  \* RankScreen.expressMode
  stored,       \* the rows kept by the backend for the ranking
  entries,      \* CreateScreen.items
  tasks,        \* the async calls in flight, each with its captured values
  rankings,     \* the rows of the rankings table
  estimate,     \* the last effort estimate computed
  score         \* the last expectedScore values computed

vars == <<items, call, applied, pair, currentPair, stable, ranked, iterations,
          pc, seen, clock, loading, isComplete, comparisons, expressMode,
          stored, entries, tasks, rankings, estimate,
          score>>

\* the state of the api calls and the values last reported
apiState == <<tasks, rankings, estimate, score>>

\* the state of the screens and of the loops around the engine
outside == <<seen, clock, loading, isComplete, comparisons, expressMode,
             stored, entries>>

\* rows: ranked_items of the ranking; count, complete: comparisons_count and
\* is_complete of its rankings row; log: rows of comparisons; next: ids given
NothingStored ==
  [rows |-> <<>>, count |-> 0, complete |-> FALSE, log |-> 0, next |-> 0]

IdsOf(its) == {its[p].id : p \in 1..Len(its)}

NoCall == [op |-> "none", input |-> <<>>, winnerId |-> "", loserId |-> "",
           skipObvious |-> FALSE, pairBefore |-> <<>>]

NothingApplied == [threw |-> FALSE, error |-> "", value |-> <<>>, items |-> <<>>]

\* collections of at most maxLen items with unique ids whose ratings and
\* comparison counts are left over from earlier comparisons
Collections(maxLen, ratings, counts) ==
  UNION {
    { [p \in 1..n |->
         [initializeItems(SubSeq(ItemNames, 1, n), Now)[p]
            EXCEPT !.rating = r[p], !.comparisons = c[p]]]
      : r \in [1..n -> ratings], c \in [1..n -> counts] }
    : n \in 0..maxLen }

InitCommon ==
  /\ call = NoCall
  /\ applied = NothingApplied
  /\ pair = <<>>
  /\ currentPair = <<>>
  /\ stable = FALSE
  /\ ranked = <<>>
  /\ iterations = 0
  /\ seen = {}
  /\ clock = Now
  /\ loading = FALSE
  /\ isComplete = FALSE
  /\ comparisons = 0
  /\ expressMode = FALSE
  /\ stored = NothingStored
  /\ entries = <<>>
  /\ tasks = <<>>
  /\ rankings = <<>>
  /\ estimate = 0
  /\ score = <<>>

\* --------------------------------------- Spec: one call on a drawn collection
Init ==
  /\ items \in Collections(MaxItems, InitRatings, InitComparisons)
  /\ pc = "idle"
  /\ InitCommon

\* applied = applyComparison(items, winnerId, loserId)
ApplyComparison(winnerId, loserId) ==
  /\ pc = "idle"
  /\ call' = [NoCall EXCEPT !.op = "applyComparison", !.input = items,
                            !.winnerId = winnerId, !.loserId = loserId]
  /\ applied' = applyComparison(items, winnerId, loserId)
  /\ items' = applied'.items
  /\ pc' = "returned"
  /\ UNCHANGED outside
  /\ UNCHANGED apiState
  /\ UNCHANGED <<pair, currentPair, stable, ranked, iterations>>

\* stable = isRankingStable(items)
IsRankingStable ==
  /\ pc = "idle"
  /\ call' = [NoCall EXCEPT !.op = "isRankingStable", !.input = items]
  /\ stable' = isRankingStable(items)
  /\ pc' = "returned"
  /\ UNCHANGED outside
  /\ UNCHANGED apiState
  /\ UNCHANGED <<items, applied, pair, currentPair, ranked, iterations>>

\* ranked = getRankedItems(items)
GetRankedItems ==
  /\ pc = "idle"
  /\ call' = [NoCall EXCEPT !.op = "getRankedItems", !.input = items]
  /\ ranked' = sortedCopy(items).value
  /\ items' = sortedCopy(items).items
  /\ pc' = "returned"
  /\ UNCHANGED outside
  /\ UNCHANGED apiState
  /\ UNCHANGED <<applied, pair, currentPair, stable, iterations>>

Next ==
  \/ \E winnerId, loserId \in IdsOf(items) \cup {MissingId} :
       ApplyComparison(winnerId, loserId)
  \/ IsRankingStable
  \/ GetRankedItems

Spec == Init /\ [][Next]_vars

\* ------------------------------------- SpecSelect: the two pair selectors
InitSelect ==
  /\ items \in Collections(MaxPool, PoolRatings, PoolComparisons)
  /\ pc = "idle"
  /\ InitCommon

\* pair = selectNextPair(items)
SelectNextPair ==
  /\ pc = "idle"
  /\ \E pick \in Picks(items), firstLeads \in BOOLEAN :
       pair' = selectNextPair(items, pick, firstLeads)
  /\ call' = [NoCall EXCEPT !.op = "selectNextPair", !.input = items]
  /\ pc' = "returned"
  /\ UNCHANGED outside
  /\ UNCHANGED apiState
  /\ UNCHANGED <<items, applied, currentPair, stable, ranked, iterations>>

\* RankScreen.selectNextPair(items, skipObvious)
ScreenSelectNextPair(skipObvious) ==
  /\ pc = "idle"
  /\ \E pick \in ScreenPicks(items, skipObvious), firstLeads \in BOOLEAN :
       currentPair' =
         screenSelectNextPair(items, skipObvious, pick, firstLeads, currentPair)
  /\ call' = [NoCall EXCEPT !.op = "RankScreen.selectNextPair",
                            !.input = items, !.skipObvious = skipObvious]
  /\ pc' = "returned"
  /\ UNCHANGED outside
  /\ UNCHANGED apiState
  /\ UNCHANGED <<items, applied, pair, stable, ranked, iterations>>

NextSelect ==
  \/ SelectNextPair
  \/ \E skipObvious \in BOOLEAN : ScreenSelectNextPair(skipObvious)

SpecSelect == InitSelect /\ [][NextSelect]_vars

\* ------------------------------- SpecFlow: the full ranking flow, any judge
\* let items = initializeItems(names); iterations = 0
InitFlow ==
  /\ \E n \in 0..MaxNames :
       items = initializeItems(SubSeq(ItemNames, 1, n), Now)
  /\ pc = "test"
  /\ InitCommon

\* while (!isRankingStable(items) && iterations < maxIterations)
LoopTest ==
  /\ pc = "test"
  /\ call' = [NoCall EXCEPT !.op = "isRankingStable", !.input = items]
  /\ stable' = isRankingStable(items)
  /\ pc' = IF ~stable' /\ iterations < MaxIterations THEN "select" ELSE "done"
  /\ UNCHANGED outside
  /\ UNCHANGED apiState
  /\ UNCHANGED <<items, applied, pair, currentPair, ranked, iterations>>

\* const pair = selectNextPair(items); if (!pair) break
LoopSelect ==
  /\ pc = "select"
  /\ call' = [NoCall EXCEPT !.op = "selectNextPair", !.input = items]
  /\ \E pick \in Picks(items), firstLeads \in BOOLEAN :
       pair' = selectNextPair(items, pick, firstLeads)
  /\ pc' = IF pair' = <<>> THEN "done" ELSE "judge"
  /\ UNCHANGED outside
  /\ UNCHANGED apiState
  /\ UNCHANGED <<items, applied, currentPair, stable, ranked, iterations>>

\* items = applyComparison(items, winnerId, loserId); iterations++
Record(winnerId, loserId) ==
  /\ call' = [NoCall EXCEPT !.op = "applyComparison", !.input = items,
                            !.winnerId = winnerId, !.loserId = loserId]
  /\ applied' = applyComparison(items, winnerId, loserId)
  /\ IF applied'.threw
     THEN /\ items' = applied'.items
          /\ iterations' = iterations
          /\ pc' = "threw"
     ELSE /\ items' = applied'.value
          /\ iterations' = iterations + 1
          /\ pc' = "test"
  /\ UNCHANGED outside
  /\ UNCHANGED apiState
  /\ UNCHANGED <<pair, currentPair, stable, ranked>>

\* the judge picks either item of the pair
LoopJudge ==
  /\ pc = "judge"
  /\ \E k \in 1..2 : Record(pair[k].id, pair[3 - k].id)

\* const finalOrder = getRankedItems(items)
LoopRank ==
  /\ pc = "done"
  /\ call' = [NoCall EXCEPT !.op = "getRankedItems", !.input = items]
  /\ ranked' = getRankedItems(items)
  /\ pc' = "ranked"
  /\ UNCHANGED outside
  /\ UNCHANGED apiState
  /\ UNCHANGED <<items, applied, pair, currentPair, stable, iterations>>

NextFlow == LoopTest \/ LoopSelect \/ LoopJudge \/ LoopRank

SpecFlow == InitFlow /\ [][NextFlow]_vars

\* ------------------- SpecPref: the flow judged by a fixed preference order
PrefNames == <<"A", "B", "C", "D">>

trueRank == [A |-> 4, B |-> 3, C |-> 2, D |-> 1]

InitPref ==
  /\ items = initializeItems(PrefNames, Now)
  /\ pc = "test"
  /\ InitCommon

\* winnerId = trueRank[pair[0].name] > trueRank[pair[1].name]
\*              ? pair[0].id : pair[1].id
\* loserId = pair[0].id === winnerId ? pair[1].id : pair[0].id
LoopJudgeByRank ==
  /\ pc = "judge"
  /\ LET winnerId == IF trueRank[pair[1].name] > trueRank[pair[2].name]
                     THEN pair[1].id ELSE pair[2].id
         loserId == IF pair[1].id = winnerId THEN pair[2].id ELSE pair[1].id
     IN Record(winnerId, loserId)

NextPref == LoopTest \/ LoopSelect \/ LoopJudgeByRank \/ LoopRank

SpecPref == InitPref /\ [][NextPref]_vars

\* ------------------------- SpecCalls: any sequence of applyComparison calls
InitCalls ==
  /\ \E n \in 0..MaxNames :
       items = initializeItems(SubSeq(ItemNames, 1, n), Now)
  /\ pc = "idle"
  /\ InitCommon

\* try { items = applyComparison(items, winnerId, loserId) } catch {}
RecordComparison(winnerId, loserId) ==
  /\ pc = "idle"
  /\ iterations < MaxCalls
  /\ call' = [NoCall EXCEPT !.op = "applyComparison", !.input = items,
                            !.winnerId = winnerId, !.loserId = loserId]
  /\ applied' = applyComparison(items, winnerId, loserId)
  /\ items' = IF applied'.threw THEN applied'.items ELSE applied'.value
  /\ iterations' = iterations + 1
  /\ UNCHANGED outside
  /\ UNCHANGED apiState
  /\ UNCHANGED <<pair, currentPair, stable, ranked, pc>>

\* pair = selectNextPair(items) between two calls
SelectBetweenCalls ==
  /\ pc = "idle"
  /\ call' = [NoCall EXCEPT !.op = "selectNextPair", !.input = items]
  /\ \E pick \in Picks(items), firstLeads \in BOOLEAN :
       pair' = selectNextPair(items, pick, firstLeads)
  /\ UNCHANGED outside
  /\ UNCHANGED apiState
  /\ UNCHANGED <<items, applied, currentPair, stable, ranked, iterations, pc>>

NextCalls ==
  \/ \E winnerId, loserId \in IdsOf(items) \cup {MissingId} :
       RecordComparison(winnerId, loserId)
  \/ SelectBetweenCalls

SpecCalls == InitCalls /\ [][NextCalls]_vars

\* ---------------------- SpecCover: the "eventually compare all items" loop
\* let items = [A, B, C, ...] all at 1500 with 0 comparisons
InitCover ==
  /\ \E n \in 3..MaxNames :
       items = initializeItems(SubSeq(ItemNames, 1, n), Now)
  /\ pc = "cover"
  /\ InitCommon

\* the key [pair[0].id, pair[1].id].sort().join('-') names the unordered pair
pairKey(pr) == {pr[1].id, pr[2].id}

\* items.map(item => pair.find(p => p.id === item.id)
\*                     ? { ...item, comparisons: item.comparisons + 1 } : item)
simulateComparison(its, pr) ==
  [p \in 1..Len(its) |->
     IF its[p].id = pr[1].id \/ its[p].id = pr[2].id
     THEN [its[p] EXCEPT !.comparisons = its[p].comparisons + 1]
     ELSE its[p]]

\* one round of for (let i = 0; i < 10 * N; i++): select, note the pair,
\* simulate the comparison
CoverRound ==
  /\ pc = "cover"
  /\ iterations < 10 * Len(items)
  /\ call' = [NoCall EXCEPT !.op = "selectNextPair", !.input = items]
  /\ \E pick \in Picks(items), firstLeads \in BOOLEAN :
       pair' = selectNextPair(items, pick, firstLeads)
  /\ IF pair' = <<>>
     THEN /\ pc' = "covered"
          /\ UNCHANGED <<items, seen, iterations>>
     ELSE /\ seen' = seen \cup {pairKey(pair')}
          /\ items' = simulateComparison(items, pair')
          /\ iterations' = iterations + 1
          /\ pc' = pc
  /\ UNCHANGED <<applied, currentPair, stable, ranked>>
  /\ UNCHANGED apiState
  /\ UNCHANGED <<clock, loading, isComplete, comparisons, expressMode,
                 stored, entries>>

\* the loop counter reaches its limit
CoverEnd ==
  /\ pc = "cover"
  /\ iterations = 10 * Len(items)
  /\ pc' = "covered"
  /\ UNCHANGED <<items, call, applied, pair, currentPair, stable, ranked,
                 iterations>>
  /\ UNCHANGED apiState
  /\ UNCHANGED outside

NextCover == CoverRound \/ CoverEnd

SpecCover == InitCover /\ [][NextCover]_vars

\* ------------------------------------------ SpecScreen: a RankScreen session
\* what RankScreen renders
View ==
  IF pc = "left" THEN "left"
  ELSE IF loading THEN "loading"
  ELSE IF isComplete THEN "results"
  ELSE IF currentPair = <<>> THEN "spinner"
  ELSE "compare"

\* const [aIdx, bIdx] = currentPair; itemA = rankedItems[aIdx]; itemB = ...
PairInRange(cp, its) ==
  /\ Len(cp) = 2
  /\ cp[1] \in 1..Len(its)
  /\ cp[2] \in 1..Len(its)

\* the state after construction: loading, nothing fetched yet
InitScreen ==
  /\ items = <<>>
  /\ call = NoCall
  /\ applied = NothingApplied
  /\ pair = <<>>
  /\ currentPair = <<>>
  /\ stable = FALSE
  /\ ranked = <<>>
  /\ iterations = 0
  /\ pc = "screen"
  /\ seen = {}
  /\ clock = Now
  /\ loading = TRUE
  /\ isComplete = FALSE
  /\ comparisons = 0
  /\ expressMode = FALSE
  /\ stored = NothingStored
  /\ entries = <<>>
  /\ tasks = <<>>
  /\ rankings = <<>>
  /\ estimate = 0
  /\ score = <<>>

\* the ranked_items rows createRanking inserts for a list of n items
freshRows(n) ==
  [p \in 1..n |->
     [id |-> "ranked-" \o ToString(p - 1),
      itemId |-> "list-" \o ToString(p - 1),
      rating |-> 1500,
      comparisons |-> 0]]

\* the LocalRankedItem loadList builds from a ranked_items row
localItem(row, name) ==
  [id |-> row.id, itemId |-> row.itemId, name |-> name,
   rating |-> row.rating, comparisons |-> row.comparisons]

\* loadList for a saved list of n items that has no ranking yet
LoadList ==
  /\ loading
  /\ \E n \in 0..MaxListItems :
       LET rows == freshRows(n)
           loaded == [p \in 1..n |-> localItem(rows[p], ItemNames[p])]
       IN /\ stored' = [NothingStored EXCEPT !.rows = rows, !.next = n]
          /\ items' = loaded
          /\ comparisons' = 0
          /\ \E pick \in ScreenPicks(loaded, FALSE), firstLeads \in BOOLEAN :
               currentPair' =
                 screenSelectNextPair(loaded, FALSE, pick, firstLeads,
                                      currentPair)
  /\ loading' = FALSE
  /\ call' = [NoCall EXCEPT !.op = "loadList"]
  /\ UNCHANGED apiState
  /\ UNCHANGED <<applied, pair, stable, ranked, iterations, pc, seen, clock,
                 isComplete, expressMode, entries>>

\* updateRankedItem(id, rating, comparisons)
updateRankedItem(rows, id, rating, count) ==
  [p \in 1..Len(rows) |->
     IF rows[p].id = id
     THEN [rows[p] EXCEPT !.rating = rating, !.comparisons = count]
     ELSE rows[p]]

\* the try block of handleChoice: saved of its four awaited calls complete
\* before one throws (saved = 4: none throws)
persistChoice(st, winner, loser, newWinnerRating, newLoserRating, saved) ==
  LET first == IF saved >= 1
               THEN updateRankedItem(st.rows, winner.id, newWinnerRating,
                                     winner.comparisons + 1)
               ELSE st.rows
      second == IF saved >= 2
                THEN updateRankedItem(first, loser.id, newLoserRating,
                                      loser.comparisons + 1)
                ELSE first
  IN [st EXCEPT !.rows = second,
                !.count = IF saved >= 3 THEN @ + 1 ELSE @,
                !.log = IF saved >= 4 THEN @ + 1 ELSE @]

\* handleChoice(winnerIdx, loserIdx), tapped on the card at position k of the
\* pair; marked: markRankingComplete does not throw
HandleChoice(k, saved, marked) ==
  /\ View = "compare"
  /\ comparisons < MaxChoices
  /\ saved = 4 \/ comparisons - stored.log < MaxFailures
  /\ PairInRange(currentPair, items)
  /\ LET winnerIdx == currentPair[k]
         loserIdx == currentPair[3 - k]
         winner == items[winnerIdx]
         loser == items[loserIdx]
         new == calculateNewRatings(winner, loser)
         withWinner ==
           [items EXCEPT ![winnerIdx] =
              [winner EXCEPT !.rating = new.winnerRating,
                             !.comparisons = winner.comparisons + 1]]
         newItems ==
           [withWinner EXCEPT ![loserIdx] =
              [loser EXCEPT !.rating = new.loserRating,
                            !.comparisons = loser.comparisons + 1]]
         written == persistChoice(stored, winner, loser, new.winnerRating,
                                  new.loserRating, saved)
     IN /\ items' = newItems
        /\ comparisons' = comparisons + 1
        /\ IF \A p \in 1..Len(newItems) : newItems[p].comparisons >= 2
           THEN /\ isComplete' = TRUE
                /\ stored' = IF marked THEN [written EXCEPT !.complete = TRUE]
                             ELSE written
                /\ currentPair' = currentPair
           ELSE /\ isComplete' = isComplete
                /\ stored' = written
                /\ \E pick \in ScreenPicks(newItems, expressMode),
                      firstLeads \in BOOLEAN :
                     currentPair' =
                       screenSelectNextPair(newItems, expressMode, pick,
                                            firstLeads, currentPair)
  /\ call' = [NoCall EXCEPT !.op = "handleChoice"]
  /\ UNCHANGED apiState
  /\ UNCHANGED <<applied, pair, stable, ranked, iterations, pc, seen, clock,
                 loading, expressMode, entries>>

\* a skip that is counted and saved as a comparison
HandleSkip_countsAsComparison ==
  /\ View = "compare"
  /\ PairInRange(currentPair, items)
  /\ \E pick \in ScreenPicks(items, expressMode), firstLeads \in BOOLEAN :
       currentPair' =
         screenSelectNextPair(items, expressMode, pick, firstLeads, currentPair)
  /\ comparisons' = comparisons + 1
  /\ stored' = [stored EXCEPT !.count = @ + 1]
  /\ call' = [NoCall EXCEPT !.op = "handleSkip",
                            !.skipObvious = expressMode,
                            !.pairBefore = currentPair]
  /\ UNCHANGED apiState
  /\ UNCHANGED <<items, applied, pair, stable, ranked, iterations, pc, seen,
                 clock, loading, isComplete, expressMode, entries>>

\* handleSkip
HandleSkip ==
  /\ View = "compare"
  /\ PairInRange(currentPair, items)
  /\ \E pick \in ScreenPicks(items, expressMode), firstLeads \in BOOLEAN :
       currentPair' =
         screenSelectNextPair(items, expressMode, pick, firstLeads, currentPair)
  /\ call' = [NoCall EXCEPT !.op = "handleSkip",
                            !.skipObvious = expressMode,
                            !.pairBefore = currentPair]
  /\ UNCHANGED apiState
  /\ UNCHANGED <<items, applied, pair, stable, ranked, iterations, pc, seen,
                 clock, loading, isComplete, comparisons, expressMode, stored,
                 entries>>

\* toggleExpressMode
ToggleExpressMode ==
  /\ View = "compare"
  /\ PairInRange(currentPair, items)
  /\ expressMode' = ~expressMode
  /\ call' = [NoCall EXCEPT !.op = "toggleExpressMode"]
  /\ UNCHANGED apiState
  /\ UNCHANGED <<items, applied, pair, currentPair, stable, ranked, iterations,
                 pc, seen, clock, loading, isComplete, comparisons, stored,
                 entries>>

\* handleAddItem(name) from the results view, name accepted by AddItemModal;
\* inserted: addListItem and the ranked_items insert both return a row
HandleAddItem(inserted) ==
  /\ View = "results"
  /\ stored.next < MaxListItems + MaxAdds
  /\ call' = [NoCall EXCEPT !.op = "handleAddItem"]
  /\ IF inserted
     THEN LET row == [id |-> "ranked-" \o ToString(stored.next),
                      itemId |-> "list-" \o ToString(stored.next),
                      rating |-> 1500,
                      comparisons |-> 0]
              newRankedItem == localItem(row, ItemNames[stored.next + 1])
              newItems == Append(items, newRankedItem)
          IN /\ stored' = [stored EXCEPT !.rows = Append(@, row),
                                         !.next = @ + 1,
                                         !.complete = FALSE]
             /\ items' = newItems
             /\ isComplete' = FALSE
             /\ \E pick \in ScreenPicks(newItems, FALSE), firstLeads \in BOOLEAN :
                  currentPair' =
                    screenSelectNextPair(newItems, FALSE, pick, firstLeads,
                                         currentPair)
     ELSE /\ stored' = [stored EXCEPT !.next = @ + 1]
          /\ UNCHANGED <<items, isComplete, currentPair>>
  /\ UNCHANGED apiState
  /\ UNCHANGED <<applied, pair, stable, ranked, iterations, pc, seen, clock,
                 loading, comparisons, expressMode, entries>>

\* handleItemAction('remove') confirmed for the item at position p;
\* deleted: deleteListItem does not throw
HandleRemove(p, deleted) ==
  /\ View = "results"
  /\ p \in 1..Len(items)
  /\ call' = [NoCall EXCEPT !.op = "remove", !.input = items,
                            !.pairBefore = currentPair]
  /\ stored' =
       [stored EXCEPT !.rows =
          Filter(@, [q \in 1..Len(@) |-> @[q].id # items[p].id])]
  /\ items' = IF deleted
              THEN Filter(items, [q \in 1..Len(items) |->
                                    items[q].id # items[p].id])
              ELSE items
  /\ UNCHANGED apiState
  /\ UNCHANGED <<applied, pair, currentPair, stable, ranked, iterations, pc,
                 seen, clock, loading, isComplete, comparisons, expressMode,
                 entries>>

\* router.back(): the Back button of the results view, the header button and
\* handleSaveAndExit of the comparison view
GoBack ==
  /\ View \in {"results", "compare"}
  /\ pc' = "left"
  /\ call' = [NoCall EXCEPT !.op = "router.back"]
  /\ UNCHANGED apiState
  /\ UNCHANGED <<items, applied, pair, currentPair, stable, ranked, iterations,
                 seen, clock, loading, isComplete, comparisons, expressMode,
                 stored, entries>>

NextScreen ==
  \/ LoadList
  \/ \E k \in 1..2, saved \in 0..4, marked \in BOOLEAN :
       HandleChoice(k, saved, marked)
  \/ HandleSkip
  \/ ToggleExpressMode
  \/ \E inserted \in BOOLEAN : HandleAddItem(inserted)
  \/ \E p \in 1..Len(items), deleted \in BOOLEAN : HandleRemove(p, deleted)
  \/ GoBack

SpecScreen == InitScreen /\ [][NextScreen]_vars

\* --------------------------------------- SpecCreate: the CreateScreen list
\* A string is the sequence of its characters; a bulk text is the sequence of
\* its lines, which is what split('\n') makes of it.
Chars == {"a", "A", " "}

Texts == UNION {[1..n -> Chars] : n \in 0..MaxTextLen}

\* String.prototype.toLowerCase, character by character
lowerChar(c) == IF c = "A" THEN "a" ELSE c

toLowerCase(text) == [i \in 1..Len(text) |-> lowerChar(text[i])]

\* String.prototype.trim: leading and trailing white space removed
RECURSIVE trimStart(_)
trimStart(text) ==
  IF text # <<>> /\ Head(text) = " " THEN trimStart(Tail(text)) ELSE text

RECURSIVE trimEnd(_)
trimEnd(text) ==
  IF text # <<>> /\ text[Len(text)] = " "
  THEN trimEnd(SubSeq(text, 1, Len(text) - 1))
  ELSE text

trim(text) == trimEnd(trimStart(text))

\* Array.prototype.includes on strings: strict equality
includes(list, text) == \E p \in 1..Len(list) : list[p] = text

\* BulkAddModal.parseItems, from the lines of the text
parseItems(lines) ==
  LET trimmed == [p \in 1..Len(lines) |-> trim(lines[p])]
  IN Filter(trimmed, [p \in 1..Len(trimmed) |-> Len(trimmed[p]) > 0])

\* BulkAddModal.handleAdd: the items handed to onAdd, <<>> when it shows an
\* error instead
bulkAccepted(lines, existingItems) ==
  LET parsed == parseItems(lines)
      duplicates ==
        Filter(parsed,
               [p \in 1..Len(parsed) |->
                  \E q \in 1..Len(existingItems) :
                    toLowerCase(existingItems[q]) = toLowerCase(parsed[p])])
      uniqueItems == {toLowerCase(parsed[p]) : p \in 1..Len(parsed)}
  IN IF Len(parsed) = 0 THEN <<>>
     ELSE IF Len(duplicates) > 0 THEN <<>>
     ELSE IF Cardinality(uniqueItems) # Len(parsed) THEN <<>>
     ELSE parsed

\* the state after construction: useState<string[]>([])
InitCreate ==
  /\ items = <<>>
  /\ pc = "create"
  /\ InitCommon

\* CreateScreen.addItem with newItem typed into the field
AddItem(newItem) ==
  LET trimmed == trim(newItem)
  IN /\ pc = "create"
     /\ Len(entries) < MaxEntries
     /\ entries' =
          IF Len(trimmed) = 0 THEN entries
          ELSE IF includes(entries, trimmed) THEN entries
          ELSE Append(entries, trimmed)
     /\ call' = [NoCall EXCEPT !.op = "addItem"]
     /\ UNCHANGED apiState
     /\ UNCHANGED <<items, applied, pair, currentPair, stable, ranked,
                    iterations, pc, seen, clock, loading, isComplete,
                    comparisons, expressMode, stored>>

\* BulkAddModal.handleAdd on the typed lines, then CreateScreen.handleBulkAdd
HandleBulkAdd(lines) ==
  LET newItems == bulkAccepted(lines, entries)
  IN /\ pc = "create"
     /\ Len(entries) + Len(newItems) <= MaxEntries
     /\ entries' = entries \o newItems
     /\ call' = [NoCall EXCEPT !.op = "handleBulkAdd"]
     /\ UNCHANGED apiState
     /\ UNCHANGED <<items, applied, pair, currentPair, stable, ranked,
                    iterations, pc, seen, clock, loading, isComplete,
                    comparisons, expressMode, stored>>

\* CreateScreen.removeItem(index), index 0-based
RemoveItem(index) ==
  /\ pc = "create"
  /\ index \in 0..(Len(entries) - 1)
  /\ entries' = Filter(entries, [p \in 1..Len(entries) |-> p - 1 # index])
  /\ call' = [NoCall EXCEPT !.op = "removeItem"]
  /\ UNCHANGED apiState
  /\ UNCHANGED <<items, applied, pair, currentPair, stable, ranked,
                 iterations, pc, seen, clock, loading, isComplete,
                 comparisons, expressMode, stored>>

NextCreate ==
  \/ \E newItem \in Texts : AddItem(newItem)
  \/ \E n \in 1..MaxLines : \E lines \in [1..n -> Texts] : HandleBulkAdd(lines)
  \/ \E index \in 0..(MaxEntries - 1) : RemoveItem(index)

SpecCreate == InitCreate /\ [][NextCreate]_vars

\* ------------------- SpecIds: initializeItems calls merged into one set
\* the name lists handed to initializeItems, repeated names included
NameLists == UNION {[1..n -> {"A", "B"}] : n \in 0..MaxNames}

InitIds ==
  /\ items = <<>>
  /\ pc = "ids"
  /\ InitCommon

\* items = [...items, ...initializeItems(names)]
InitializeItems(names) ==
  /\ pc = "ids"
  /\ iterations < MaxInitCalls
  /\ items' = items \o initializeItems(names, clock)
  /\ call' = [NoCall EXCEPT !.op = "initializeItems", !.input = names]
  /\ iterations' = iterations + 1
  /\ UNCHANGED apiState
  /\ UNCHANGED <<applied, pair, currentPair, stable, ranked, pc, seen, clock,
                 loading, isComplete, comparisons, expressMode, stored,
                 entries>>

\* a millisecond passes: Date.now() returns the next reading
Tick ==
  /\ pc = "ids"
  /\ clock < MaxClock
  /\ clock' = clock + 1
  /\ UNCHANGED apiState
  /\ UNCHANGED <<items, call, applied, pair, currentPair, stable, ranked,
                 iterations, pc, seen, loading, isComplete, comparisons,
                 expressMode, stored, entries>>

NextIds ==
  \/ \E names \in NameLists : InitializeItems(names)
  \/ Tick

SpecIds == InitIds /\ [][NextIds]_vars

\* ------------------ SpecUpset: one call on two items rated close together
\* ratings within MaxGap of the default, and one far below
UpsetRatings == ((DEFAULT_RATING - MaxGap)..(DEFAULT_RATING + MaxGap)) \cup {780}

InitUpset ==
  /\ items \in Collections(2, UpsetRatings, {0})
  /\ pc = "idle"
  /\ InitCommon

SpecUpset == InitUpset /\ [][Next]_vars

\* ------------------------- SpecEstimate: the three effort estimates
\* the items of a list of n entries, as getListItems returns them
listItems(n) == [p \in 1..n |-> [id |-> "list-" \o ToString(p - 1)]]

\* the rankings row of a user for a list
rankingRow(id, listId, userId, count, complete) ==
  [id |-> id, list_id |-> listId, user_id |-> userId,
   comparisons_count |-> count, is_complete |-> complete]

\* the list has n entries and the user no ranking of it or one
InitEstimate ==
  /\ InitCommon
  /\ \E n \in 0..MaxCount : items = listItems(n)
  /\ pc = "idle"

UserRankedBefore ==
  /\ pc = "idle"
  /\ rankings = <<>>
  /\ call = NoCall
  /\ \E count \in 0..2, complete \in BOOLEAN :
       rankings' = <<rankingRow("ranking-0", "list", "user", count, complete)>>
  /\ call' = [NoCall EXCEPT !.op = "createRanking"]
  /\ UNCHANGED <<tasks, estimate, score>>
  /\ UNCHANGED outside
  /\ UNCHANGED <<items, applied, pair, currentPair, stable, ranked, iterations,
                 pc>>

\* estimate = estimateComparisonsNeeded(items.length)
EstimateComparisonsNeeded ==
  /\ pc = "idle"
  /\ estimate' = estimateComparisonsNeeded(Len(items))
  /\ call' = [NoCall EXCEPT !.op = "estimateComparisonsNeeded"]
  /\ pc' = "returned"
  /\ UNCHANGED <<tasks, rankings, score>>
  /\ UNCHANGED outside
  /\ UNCHANGED <<items, applied, pair, currentPair, stable, ranked, iterations>>

\* getUserListsWithStatus for the list: its status entry is built from the
\* item count and the user's ranking row, if any
GetUserListsWithStatus ==
  /\ pc = "idle"
  /\ estimate' = estimatedComparisons(Len(items))
  /\ call' = [NoCall EXCEPT !.op = "getUserListsWithStatus"]
  /\ pc' = "returned"
  /\ UNCHANGED <<tasks, rankings, score>>
  /\ UNCHANGED outside
  /\ UNCHANGED <<items, applied, pair, currentPair, stable, ranked, iterations>>

\* RankScreen rendering its progress bar over rankedItems = items
RenderProgress ==
  /\ pc = "idle"
  /\ estimate' = screenEstimated(items)
  /\ call' = [NoCall EXCEPT !.op = "RankScreen.render"]
  /\ pc' = "returned"
  /\ UNCHANGED <<tasks, rankings, score>>
  /\ UNCHANGED outside
  /\ UNCHANGED <<items, applied, pair, currentPair, stable, ranked, iterations>>

NextEstimate ==
  \/ EstimateComparisonsNeeded
  \/ GetUserListsWithStatus
  \/ UserRankedBefore
  \/ RenderProgress

SpecEstimate == InitEstimate /\ [][NextEstimate]_vars

\* ------------------------------- SpecScore: expectedScore on two ratings
InitScore ==
  /\ InitCommon
  /\ items \in Collections(2, UpsetRatings, {0})
  /\ Len(items) = 2
  /\ pc = "idle"

\* expectedScore(a, b), expectedScore(b, a) and expectedScore(a, a) for the
\* ratings a, b of the two items
ExpectedScore ==
  /\ pc = "idle"
  /\ score' = [ab |-> expectedScore(items[1].rating, items[2].rating),
               ba |-> expectedScore(items[2].rating, items[1].rating),
               aa |-> expectedScore(items[1].rating, items[1].rating)]
  /\ call' = [NoCall EXCEPT !.op = "expectedScore", !.input = items]
  /\ pc' = "returned"
  /\ UNCHANGED <<tasks, rankings, estimate>>
  /\ UNCHANGED outside
  /\ UNCHANGED <<items, applied, pair, currentPair, stable, ranked, iterations>>

SpecScore == InitScore /\ [][ExpectedScore]_vars

\* ----------------- SpecTaps: RankScreen handlers interleaving at awaits
\* An async handler runs up to its first await when the user taps, and its
\* continuation runs when the awaited calls have settled.  In between the
\* screen re-renders and takes further taps.  A task keeps what the closure
\* of the handler captured: captured (newItems of handleChoice, rankedItems
\* of the others), first and second (winnerIdx, loserIdx), express
\* (expressMode), target and rating (the item acted on and its new rating).
NoTask ==
  [op |-> "none", captured |-> <<>>, first |-> 0, second |-> 0,
   express |-> FALSE, target |-> "", rating |-> 0]

Without(s, i) == SubSeq(s, 1, i - 1) \o SubSeq(s, i + 1, Len(s))

InFlight(op) == Cardinality({i \in 1..Len(tasks) : tasks[i].op = op})

\* handleChoice(winnerIdx, loserIdx) up to its first await
TapChoice(k) ==
  /\ View = "compare"
  /\ PairInRange(currentPair, items)
  /\ comparisons < MaxTaps
  /\ Len(tasks) < MaxInFlight
  /\ LET winnerIdx == currentPair[k]
         loserIdx == currentPair[3 - k]
         winner == items[winnerIdx]
         loser == items[loserIdx]
         new == calculateNewRatings(winner, loser)
         withWinner ==
           [items EXCEPT ![winnerIdx] =
              [winner EXCEPT !.rating = new.winnerRating,
                             !.comparisons = winner.comparisons + 1]]
         newItems ==
           [withWinner EXCEPT ![loserIdx] =
              [loser EXCEPT !.rating = new.loserRating,
                            !.comparisons = loser.comparisons + 1]]
     IN /\ items' = newItems
        /\ comparisons' = comparisons + 1
        /\ tasks' = Append(tasks,
                           [NoTask EXCEPT !.op = "handleChoice",
                                          !.captured = newItems,
                                          !.first = winnerIdx,
                                          !.second = loserIdx,
                                          !.express = expressMode])
  /\ UNCHANGED <<call, applied, pair, currentPair, stable, ranked, iterations, pc,
                 seen, clock, loading, isComplete, expressMode, stored,
                 entries, rankings, estimate, score>>

\* the rest of handleChoice: the try block has settled (saved of its four
\* calls completed), then the completion check on the captured newItems
ResumeChoice(i, saved, marked) ==
  /\ i \in 1..Len(tasks)
  /\ tasks[i].op = "handleChoice"
  /\ saved = 4 \/ comparisons - stored.log - InFlight("handleChoice") < MaxFailures
  /\ LET newItems == tasks[i].captured
         winner == newItems[tasks[i].first]
         loser == newItems[tasks[i].second]
         written ==
           persistChoice(stored,
                         [winner EXCEPT !.comparisons = @ - 1],
                         [loser EXCEPT !.comparisons = @ - 1],
                         winner.rating, loser.rating, saved)
     IN IF \A p \in 1..Len(newItems) : newItems[p].comparisons >= 2
        THEN /\ isComplete' = TRUE
             /\ stored' = IF marked THEN [written EXCEPT !.complete = TRUE]
                          ELSE written
             /\ currentPair' = currentPair
        ELSE /\ isComplete' = isComplete
             /\ stored' = written
             /\ \E pick \in ScreenPicks(newItems, tasks[i].express),
                   firstLeads \in BOOLEAN :
                  currentPair' =
                    screenSelectNextPair(newItems, tasks[i].express, pick,
                                         firstLeads, currentPair)
  /\ tasks' = Without(tasks, i)
  /\ UNCHANGED <<items, call, applied, pair, stable, ranked, iterations, pc, seen,
                 clock, loading, comparisons, expressMode, entries, rankings,
                 estimate, score>>

\* handleAddItem(name) up to its first await
TapAddItem ==
  /\ View = "results"
  /\ stored.next + InFlight("handleAddItem") < MaxListItems + MaxAdds
  /\ Len(tasks) < MaxInFlight
  /\ tasks' = Append(tasks, [NoTask EXCEPT !.op = "handleAddItem",
                                           !.captured = items])
  /\ UNCHANGED <<items, call, applied, pair, currentPair, stable, ranked, iterations,
                 pc, seen, clock, loading, isComplete, comparisons,
                 expressMode, stored, entries, rankings, estimate, score>>

\* the rest of handleAddItem, over the rankedItems it captured
ResumeAddItem(i, inserted) ==
  /\ i \in 1..Len(tasks)
  /\ tasks[i].op = "handleAddItem"
  /\ tasks' = Without(tasks, i)
  /\ IF inserted
     THEN LET row == [id |-> "ranked-" \o ToString(stored.next),
                      itemId |-> "list-" \o ToString(stored.next),
                      rating |-> 1500,
                      comparisons |-> 0]
              newRankedItem == localItem(row, ItemNames[stored.next + 1])
              newItems == Append(tasks[i].captured, newRankedItem)
          IN /\ stored' = [stored EXCEPT !.rows = Append(@, row),
                                         !.next = @ + 1,
                                         !.complete = FALSE]
             /\ items' = newItems
             /\ isComplete' = FALSE
             /\ \E pick \in ScreenPicks(newItems, FALSE), firstLeads \in BOOLEAN :
                  currentPair' =
                    screenSelectNextPair(newItems, FALSE, pick, firstLeads,
                                         currentPair)
     ELSE /\ stored' = [stored EXCEPT !.next = @ + 1]
          /\ UNCHANGED <<items, isComplete, currentPair>>
  /\ UNCHANGED <<call, applied, pair, stable, ranked, iterations, pc, seen, clock,
                 loading, comparisons, expressMode, entries, rankings,
                 estimate, score>>

\* sorted[0]?.rating || 1500 and sorted[sorted.length - 1]?.rating || 1500
orDefault(rating) == IF rating = 0 THEN 1500 ELSE rating

\* handleItemAction(action) for the item at position p of the results list,
\* up to its first await ('remove': the confirmed Alert button)
TapItemAction(action, p) ==
  /\ View = "results"
  /\ p \in 1..Len(items)
  /\ iterations < MaxItemActions
  /\ Len(tasks) < MaxInFlight
  /\ LET sorted == getRankedItems(items)
         newRating ==
           IF action = "boost" THEN orDefault(sorted[1].rating) + 100
           ELSE IF action = "demote"
           THEN orDefault(sorted[Len(sorted)].rating) - 100
           ELSE 0
     IN tasks' = Append(tasks, [NoTask EXCEPT !.op = action,
                                              !.captured = items,
                                              !.first = p,
                                              !.target = items[p].id,
                                              !.rating = newRating])
  /\ iterations' = iterations + 1
  /\ UNCHANGED <<items, call, applied, pair, currentPair, stable, ranked, pc, seen,
                 clock, loading, isComplete, comparisons, expressMode, stored,
                 entries, rankings, estimate, score>>

\* the rest of a boost or demote; saved: updateRankedItem does not throw
ResumeRating(i, saved) ==
  /\ i \in 1..Len(tasks)
  /\ tasks[i].op \in {"boost", "demote"}
  /\ tasks' = Without(tasks, i)
  /\ IF saved
     THEN LET task == tasks[i]
              item == task.captured[task.first]
          IN /\ stored' =
                  [stored EXCEPT !.rows =
                     updateRankedItem(@, item.id, task.rating, item.comparisons)]
             /\ items' =
                  [q \in 1..Len(task.captured) |->
                     IF task.captured[q].id = item.id
                     THEN [task.captured[q] EXCEPT !.rating = task.rating]
                     ELSE task.captured[q]]
     ELSE UNCHANGED <<items, stored>>
  /\ UNCHANGED <<call, applied, pair, currentPair, stable, ranked, iterations, pc,
                 seen, clock, loading, isComplete, comparisons, expressMode,
                 entries, rankings, estimate, score>>

\* the rest of a remove; deleted: deleteListItem does not throw
ResumeRemove(i, deleted) ==
  /\ i \in 1..Len(tasks)
  /\ tasks[i].op = "remove"
  /\ tasks' = Without(tasks, i)
  /\ stored' =
       [stored EXCEPT !.rows =
          Filter(@, [q \in 1..Len(@) |-> @[q].id # tasks[i].target])]
  /\ items' = IF deleted
              THEN Filter(tasks[i].captured,
                          [q \in 1..Len(tasks[i].captured) |->
                             tasks[i].captured[q].id # tasks[i].target])
              ELSE items
  /\ UNCHANGED <<call, applied, pair, currentPair, stable, ranked, iterations, pc,
                 seen, clock, loading, isComplete, comparisons, expressMode,
                 entries, rankings, estimate, score>>

NextTaps ==
  \/ LoadList
  \/ \E k \in 1..2 : TapChoice(k)
  \/ \E i \in 1..MaxInFlight, saved \in 0..4, marked \in BOOLEAN :
       ResumeChoice(i, saved, marked)
  \/ TapAddItem
  \/ \E i \in 1..MaxInFlight, inserted \in BOOLEAN : ResumeAddItem(i, inserted)
  \/ \E action \in {"boost", "demote", "remove"}, p \in 1..Len(items) :
       TapItemAction(action, p)
  \/ \E i \in 1..MaxInFlight, saved \in BOOLEAN : ResumeRating(i, saved)
  \/ \E i \in 1..MaxInFlight, deleted \in BOOLEAN : ResumeRemove(i, deleted)

SpecTaps == InitScreen /\ [][NextTaps]_vars

\* ------------- SpecRankings: createRanking(listId, userId) calls overlapping
\* A call in flight: at is the await it stands before ("select", "insert",
\* "items") or how it ended ("returned", "threw"); ranking is the id of the
\* row it found or inserted; next is the list item its loop inserts next.
apiCall(op) == [op |-> op, at |-> "select", ranking |-> "", next |-> 1,
                read |-> 0]

\* the list has one or more entries, no ranking exists yet
InitRankings ==
  /\ InitCommon
  /\ \E n \in 1..MaxListItems : items = listItems(n)
  /\ pc = "api"

\* createRanking(list.id, user.id) is called (loadList of a screen)
CallCreateRanking ==
  /\ pc = "api"
  /\ Len(tasks) < MaxRankingCalls
  /\ tasks' = Append(tasks, apiCall("createRanking"))
  /\ UNCHANGED <<items, call, applied, pair, currentPair, stable, ranked,
                 iterations, pc, seen, clock, loading, isComplete, comparisons,
                 expressMode, stored, entries, rankings, estimate, score>>

\* select('*').eq(list_id).eq(user_id).single(): data is the row when exactly
\* one row matches, null otherwise; if (existing) return existing
SelectExisting(i) ==
  /\ i \in 1..Len(tasks)
  /\ tasks[i].op = "createRanking"
  /\ tasks[i].at = "select"
  /\ tasks' = [tasks EXCEPT ![i] =
                 IF Len(rankings) = 1
                 THEN [@ EXCEPT !.at = "returned", !.ranking = rankings[1].id]
                 ELSE [@ EXCEPT !.at = "insert"]]
  /\ UNCHANGED <<items, call, applied, pair, currentPair, stable, ranked,
                 iterations, pc, seen, clock, loading, isComplete, comparisons,
                 expressMode, stored, entries, rankings, estimate, score>>

\* insert({list_id, user_id, is_complete: false, comparisons_count: 0});
\* if (error) throw error
InsertRanking(i, inserted) ==
  /\ i \in 1..Len(tasks)
  /\ tasks[i].op = "createRanking"
  /\ tasks[i].at = "insert"
  /\ IF inserted
     THEN LET id == "ranking-" \o ToString(Len(rankings))
          IN /\ rankings' =
                  Append(rankings, rankingRow(id, "list", "user", 0, FALSE))
             /\ tasks' = [tasks EXCEPT ![i] =
                            [@ EXCEPT !.at = "items", !.ranking = id]]
     ELSE /\ rankings' = rankings
          /\ tasks' = [tasks EXCEPT ![i] = [@ EXCEPT !.at = "threw"]]
  /\ UNCHANGED <<items, call, applied, pair, currentPair, stable, ranked,
                 iterations, pc, seen, clock, loading, isComplete, comparisons,
                 expressMode, stored, entries, estimate, score>>

\* one round of: for (const item of items) await insert({ranking_id, item_id,
\* rating: 1500, comparisons: 0}); the last round returns the ranking
InsertRankedItem(i) ==
  /\ i \in 1..Len(tasks)
  /\ tasks[i].op = "createRanking"
  /\ tasks[i].at = "items"
  /\ stored' =
       [stored EXCEPT !.rows =
          Append(@, [ranking_id |-> tasks[i].ranking,
                     item_id |-> items[tasks[i].next].id,
                     rating |-> 1500,
                     comparisons |-> 0])]
  /\ tasks' = [tasks EXCEPT ![i] =
                 [@ EXCEPT !.next = @ + 1,
                           !.at = IF tasks[i].next = Len(items)
                                  THEN "returned" ELSE "items"]]
  /\ UNCHANGED <<items, call, applied, pair, currentPair, stable, ranked,
                 iterations, pc, seen, clock, loading, isComplete, comparisons,
                 expressMode, entries, rankings, estimate, score>>

NextRankings ==
  \/ CallCreateRanking
  \/ \E i \in 1..MaxRankingCalls : SelectExisting(i)
  \/ \E i \in 1..MaxRankingCalls, inserted \in BOOLEAN :
       InsertRanking(i, inserted)
  \/ \E i \in 1..MaxRankingCalls : InsertRankedItem(i)

SpecRankings == InitRankings /\ [][NextRankings]_vars

\* ------- SpecIncrement: incrementComparisonsCount(rankingId) calls overlapping
\* no ranking is stored yet and no call is in flight
InitIncrement ==
  /\ InitCommon
  /\ items = <<>>
  /\ pc = "api"

\* one ranking exists, with some comparisons counted already; comparisons
\* keeps the count the session starts from (loadList reads
\* ranking.comparisons_count into it)
RankingStored ==
  /\ pc = "api"
  /\ rankings = <<>>
  /\ tasks = <<>>
  /\ \E count \in 0..1 :
       rankings' = <<rankingRow("ranking-0", "list", "user", count, FALSE)>>
  /\ comparisons' = rankings'[1].comparisons_count
  /\ UNCHANGED <<items, call, applied, pair, currentPair, stable, ranked,
                 iterations, pc, seen, clock, loading, isComplete, expressMode,
                 stored, entries, tasks, estimate, score>>

\* incrementComparisonsCount(rankingId) is called
CallIncrement(rankingId) ==
  /\ pc = "api"
  /\ rankings # <<>>
  /\ Len(tasks) < MaxIncrements
  /\ tasks' = Append(tasks, [apiCall("incrementComparisonsCount")
                               EXCEPT !.ranking = rankingId])
  /\ UNCHANGED <<items, call, applied, pair, currentPair, stable, ranked,
                 iterations, pc, seen, clock, loading, isComplete, comparisons,
                 expressMode, stored, entries, rankings, estimate, score>>

\* select('comparisons_count').eq('id', rankingId).single(); without a row
\* the call ends
SelectCount(i) ==
  /\ i \in 1..Len(tasks)
  /\ tasks[i].op = "incrementComparisonsCount"
  /\ tasks[i].at = "select"
  /\ tasks' = [tasks EXCEPT ![i] =
                 IF tasks[i].ranking = rankings[1].id
                 THEN [@ EXCEPT !.at = "update",
                                !.read = rankings[1].comparisons_count]
                 ELSE [@ EXCEPT !.at = "returned"]]
  /\ UNCHANGED <<items, call, applied, pair, currentPair, stable, ranked,
                 iterations, pc, seen, clock, loading, isComplete, comparisons,
                 expressMode, stored, entries, rankings, estimate, score>>

\* update({comparisons_count: ranking.comparisons_count + 1}).eq('id',
\* rankingId)
UpdateCount(i) ==
  /\ i \in 1..Len(tasks)
  /\ tasks[i].op = "incrementComparisonsCount"
  /\ tasks[i].at = "update"
  /\ rankings' = [rankings EXCEPT ![1].comparisons_count = tasks[i].read + 1]
  /\ tasks' = [tasks EXCEPT ![i] = [@ EXCEPT !.at = "returned"]]
  /\ UNCHANGED <<items, call, applied, pair, currentPair, stable, ranked,
                 iterations, pc, seen, clock, loading, isComplete, comparisons,
                 expressMode, stored, entries, estimate, score>>

NextIncrement ==
  \/ RankingStored
  \/ \E rankingId \in {"ranking-0", MissingId} : CallIncrement(rankingId)
  \/ \E i \in 1..MaxIncrements : SelectCount(i)
  \/ \E i \in 1..MaxIncrements : UpdateCount(i)

SpecIncrement == InitIncrement /\ [][NextIncrement]_vars

\* ---------------------------------------------------------------- claims
Present(id, its) == \E p \in 1..Len(its) : its[p].id = id

\* C1: applyComparison with two distinct ids of the collection returns a
\* collection of the same length and order in which the winner and the loser
\* have comparisons + 1 and the ratings calculateNewRatings gives, every other
\* item is as before, and the collection passed in is not modified.
C1_ApplyComparisonFrame ==
  (/\ call.op = "applyComparison"
   /\ call.winnerId # call.loserId
   /\ Present(call.winnerId, call.input)
   /\ Present(call.loserId, call.input))
  => LET in == call.input
         out == applied.value
         new == calculateNewRatings(in[Find(in, call.winnerId)],
                                    in[Find(in, call.loserId)])
     IN /\ ~applied.threw
        /\ Len(out) = Len(in)
        /\ \A p \in 1..Len(in) :
             /\ out[p].id = in[p].id
             /\ out[p].name = in[p].name
             /\ IF in[p].id = call.winnerId
                THEN /\ out[p].rating = new.winnerRating
                     /\ out[p].comparisons = in[p].comparisons + 1
                ELSE IF in[p].id = call.loserId
                THEN /\ out[p].rating = new.loserRating
                     /\ out[p].comparisons = in[p].comparisons + 1
                ELSE out[p] = in[p]
        /\ applied.items = in
        /\ items = in

\* a winner and a loser with a bystander between them, both ratings moved
C1_Witness ==
  /\ call.op = "applyComparison"
  /\ Len(call.input) = 3
  /\ call.winnerId = call.input[3].id
  /\ call.loserId = call.input[1].id
  /\ ~applied.threw
  /\ applied.value[3].rating > call.input[3].rating
  /\ applied.value[1].rating < call.input[1].rating
  /\ applied.value[2] = call.input[2]

\* C2: applyComparison throws 'Invalid winner or loser ID' whenever winnerId
\* or loserId is not the id of an item of the collection; then nothing is
\* returned and no item of the collection is changed.
C2_UnknownIdThrows ==
  (/\ call.op = "applyComparison"
   /\ \/ ~Present(call.winnerId, call.input)
      \/ ~Present(call.loserId, call.input))
  => /\ applied.threw
     /\ applied.error = "Invalid winner or loser ID"
     /\ applied.value = <<>>
     /\ applied.items = call.input
     /\ items = call.input

\* an unknown winner against a known loser
C2_Witness ==
  /\ call.op = "applyComparison"
  /\ call.winnerId = MissingId
  /\ Present(call.loserId, call.input)
  /\ applied.threw

IsItemOf(it, its) == \E p \in 1..Len(its) : its[p] = it

\* C3: on a collection of two or more items with unique ids both selectors
\* (lib selectNextPair; RankScreen's, express filter on or off) yield two
\* distinct items of the collection whatever the random draws; on fewer than
\* two items lib returns null and RankScreen leaves currentPair unset.
C3_PairValidity ==
  /\ call.op = "selectNextPair" =>
       IF Len(call.input) >= 2
       THEN /\ Len(pair) = 2
            /\ pair[1].id # pair[2].id
            /\ IsItemOf(pair[1], call.input)
            /\ IsItemOf(pair[2], call.input)
       ELSE pair = <<>>
  /\ call.op = "RankScreen.selectNextPair" =>
       IF Len(call.input) >= 2
       THEN /\ Len(currentPair) = 2
            /\ currentPair[1] # currentPair[2]
            /\ currentPair[1] \in 1..Len(call.input)
            /\ currentPair[2] \in 1..Len(call.input)
       ELSE currentPair = <<>>

MinComparisons(its) ==
  CHOOSE m \in {its[p].comparisons : p \in 1..Len(its)} :
    \A p \in 1..Len(its) : m <= its[p].comparisons

\* the first item, in collection order, with the fewest comparisons
Primary(its) ==
  its[CHOOSE p \in 1..Len(its) :
        /\ its[p].comparisons = MinComparisons(its)
        /\ \A q \in 1..(p - 1) : its[q].comparisons # MinComparisons(its)]

\* the express filter is on and no opponent is within the threshold: a pair
\* is selected all the same
C3_Witness ==
  /\ call.op = "RankScreen.selectNextPair"
  /\ call.skipObvious
  /\ Len(call.input) >= 3
  /\ \A p \in 1..Len(call.input) :
       \/ call.input[p] = Primary(call.input)
       \/ Abs(call.input[p].rating - Primary(call.input).rating) >= 200
  /\ Len(currentPair) = 2

\* C4: every pair lib selectNextPair returns contains an item whose
\* comparisons equal the minimum over the collection.
C4_PrimaryIsLeastCompared ==
  (call.op = "selectNextPair" /\ Len(call.input) >= 2)
  => \E k \in 1..2 : pair[k].comparisons = MinComparisons(call.input)

\* the least compared item is not the first of the collection and its
\* opponent has more comparisons
C4_Witness ==
  /\ call.op = "selectNextPair"
  /\ Len(call.input) >= 3
  /\ call.input[1].comparisons > MinComparisons(call.input)
  /\ \E k \in 1..2 :
       /\ pair[k] = Primary(call.input)
       /\ pair[3 - k].comparisons > MinComparisons(call.input)

\* the item of the pair that is not the primary
Opponent(pr, its) ==
  IF pr[1].id = Primary(its).id THEN pr[2] ELSE pr[1]

\* the items outside the pair strictly closer in rating to the primary than
\* the opponent is
StrictlyCloser(pr, its) ==
  {p \in 1..Len(its) :
     /\ its[p].id # pr[1].id
     /\ its[p].id # pr[2].id
     /\ Abs(its[p].rating - Primary(its).rating)
          < Abs(Opponent(pr, its).rating - Primary(its).rating)}

\* C5: in every pair lib selectNextPair returns, the opponent of the primary
\* (the first item with the fewest comparisons) is among the 3 items closest
\* in rating to the primary: at most two items outside the pair are strictly
\* closer.
C5_OpponentAmongThreeClosest ==
  (call.op = "selectNextPair" /\ Len(call.input) >= 2)
  => /\ \E k \in 1..2 : pair[k].id = Primary(call.input).id
     /\ Cardinality(StrictlyCloser(pair, call.input)) <= 2

\* four opponents: the third closest is chosen, the farthest is left out
C5_Witness ==
  /\ call.op = "selectNextPair"
  /\ Len(call.input) = 5
  /\ Cardinality(StrictlyCloser(pair, call.input)) = 2
  /\ \E p \in 1..5 :
       Abs(call.input[p].rating - Primary(call.input).rating)
         > Abs(Opponent(pair, call.input).rating - Primary(call.input).rating)

\* C6: isRankingStable(items) is true exactly when every item has
\* comparisons >= 2 (so true for the empty collection).
C6_StableIffAllTwice ==
  call.op = "isRankingStable"
  => (stable <=> \A p \in 1..Len(call.input) : call.input[p].comparisons >= 2)

\* one item compared once among items compared twice: not stable
C6_Witness ==
  /\ call.op = "isRankingStable"
  /\ Len(call.input) = 3
  /\ call.input[1].comparisons = 2
  /\ call.input[2].comparisons = 1
  /\ call.input[3].comparisons = 2
  /\ ~stable

\* C7: from initializeItems(names) with two or more names the loop "while not
\* isRankingStable: select a pair, record its outcome" ends, for every
\* judgment and every random draw, after at most
\* estimateComparisonsNeeded(N) = 2N recorded comparisons.  Every round of the
\* loop records one comparison, so the loop ends when the count is bounded and
\* the only way out is a stable ranking: no break on a missing pair, no
\* exception, no stop at the iteration cap.
C7_FlowEndsWithinEstimate ==
  Len(items) >= 2
  => /\ iterations <= estimateComparisonsNeeded(Len(items))
     /\ pc # "threw"
     /\ pc \in {"done", "ranked"} => stable

\* three items, stable only after a fourth comparison
C7_Witness ==
  /\ pc = "done"
  /\ stable
  /\ Len(items) = 3
  /\ iterations = 4

RECURSIVE SumRatings(_)
SumRatings(its) ==
  IF its = <<>> THEN 0 ELSE Head(its).rating + SumRatings(Tail(its))

\* C8: rating points are conserved: after any sequence of applyComparison
\* calls on a collection created by initializeItems with N names the sum of
\* all ratings is 1500 * N.
C8_SumConserved ==
  SumRatings(items) = DEFAULT_RATING * Len(items)

\* the ratings of the winner and of the loser of the last call, before and
\* after it
Before(id) == call.input[Find(call.input, id)].rating

After(id) == applied.value[Find(call.input, id)].rating

DistinctKnownIds ==
  /\ call.op = "applyComparison"
  /\ call.winnerId # call.loserId
  /\ Present(call.winnerId, call.input)
  /\ Present(call.loserId, call.input)

\* C9 as stated: the winner's new rating is strictly greater than its old one
\* and the loser's strictly less, also when the winner was rated far above
\* the loser.
C9_StrictDirection ==
  DistinctKnownIds
  => /\ After(call.winnerId) > Before(call.winnerId)
     /\ After(call.loserId) < Before(call.loserId)

\* C9 as amended: with K = 32 the winner's rating never decreases and the
\* loser's never increases; both move strictly when the winner was rated less
\* than 720 above the loser, and both are returned unchanged from 720 up.
C9_DirectionUpToRounding ==
  DistinctKnownIds
  => IF Before(call.winnerId) - Before(call.loserId) < 720
     THEN /\ After(call.winnerId) > Before(call.winnerId)
          /\ After(call.loserId) < Before(call.loserId)
     ELSE /\ After(call.winnerId) = Before(call.winnerId)
          /\ After(call.loserId) = Before(call.loserId)

\* the winner was rated 720 above the loser: neither rating moves
C9_Witness ==
  /\ DistinctKnownIds
  /\ Before(call.winnerId) - Before(call.loserId) = 720
  /\ After(call.winnerId) = Before(call.winnerId)
  /\ After(call.loserId) = Before(call.loserId)

PositionOf(name, its) == CHOOSE p \in 1..Len(its) : its[p].name = name

\* C10: four items A, B, C, D starting at 1500 with 0 comparisons, pairs from
\* selectNextPair, every comparison decided by the order A > B > C > D until
\* isRankingStable: getRankedItems places A before D for every random draw.
C10_TopBeforeBottom ==
  (pc = "ranked" /\ stable)
  => PositionOf("A", ranked) < PositionOf("D", ranked)

\* a final order with A first, D last and the middle pair out of order
C10_Witness ==
  /\ pc = "ranked"
  /\ stable
  /\ ranked[1].name = "A"
  /\ ranked[2].name = "C"
  /\ ranked[3].name = "B"
  /\ ranked[4].name = "D"

\* C11: for three or more items starting with 0 comparisons, selecting a pair
\* and recording an outcome 10 * N times makes every one of the N(N-1)/2
\* unordered pairs selected at least once.
C11_EveryPairWithinTenN ==
  (pc = "covered" /\ Len(items) >= 3)
  => Cardinality(seen) = (Len(items) * (Len(items) - 1)) \div 2

\* C12: a collection of exactly one item never becomes stable: from a single
\* item with 0 comparisons no sequence of selectNextPair and applyComparison
\* calls with ids of that collection yields a collection on which
\* isRankingStable is true.
C12_LoneItemNeverStable ==
  Len(items) = 1 => ~isRankingStable(items)

\* C13: after a removal has updated rankedItems, currentPair is cleared or
\* holds two distinct in-range positions designating the same two items as
\* before the removal, and the comparison view is only rendered for a pair
\* whose positions are in range.
C13_RemoveKeepsPairSound ==
  /\ (call.op = "remove" /\ items # call.input)
       => \/ currentPair = <<>>
          \/ /\ PairInRange(currentPair, items)
             /\ currentPair[1] # currentPair[2]
             /\ PairInRange(call.pairBefore, call.input)
             /\ \A k \in 1..2 :
                  items[currentPair[k]].id = call.input[call.pairBefore[k]].id
  /\ View = "compare" => PairInRange(currentPair, items)

\* C14: a handleSkip step leaves every item's rating and comparisons, the
\* comparisons counter, isComplete and everything stored unchanged; its only
\* effect is a pair of two distinct positions of the unchanged collection.
C14_SkipChangesNoRatingState ==
  [][call'.op = "handleSkip"
       => /\ items' = items
          /\ comparisons' = comparisons
          /\ isComplete' = isComplete
          /\ stored' = stored
          /\ expressMode' = expressMode
          /\ loading' = loading
          /\ PairInRange(currentPair', items)
          /\ currentPair'[1] # currentPair'[2]]_vars

\* a skip after a recorded and saved comparison that brought up another pair
C14_Witness ==
  /\ call.op = "handleSkip"
  /\ comparisons > 0
  /\ stored.count > 0
  /\ call.pairBefore # currentPair
  /\ \E p \in 1..Len(items) : items[p].rating # 1500

\* the position in the pair of the item that is not the primary
screenOpponent(cp, its) ==
  IF its[cp[1]].id = Primary(its).id THEN its[cp[2]] ELSE its[cp[1]]

\* C15: with the express filter on, RankScreen.selectNextPair never pairs the
\* primary with an opponent more than 200 rating points away when some other
\* item of the collection is at most 200 points away from the primary.
C15_ExpressKeepsCloseOpponent ==
  (/\ call.op = "RankScreen.selectNextPair"
   /\ call.skipObvious
   /\ Len(call.input) >= 2
   /\ \E p \in 1..Len(call.input) :
        /\ call.input[p].id # Primary(call.input).id
        /\ Abs(call.input[p].rating - Primary(call.input).rating) <= 200)
  => Abs(screenOpponent(currentPair, call.input).rating
           - Primary(call.input).rating) <= 200

\* C16: after any sequence of addItem, handleBulkAdd (through BulkAddModal)
\* and removeItem, no two entries of the CreateScreen item list are equal
\* when compared case-insensitively.
C16_NamesUniqueIgnoringCase ==
  \A p, q \in 1..Len(entries) :
    p # q => toLowerCase(entries[p]) # toLowerCase(entries[q])

\* C17: any two items created by initializeItems, by one call or by two
\* calls (also at the same clock reading), have different ids: the merged
\* working set keeps every id unique.
C17_IdsNeverReused ==
  \A p, q \in 1..Len(items) : p # q => items[p].id # items[q].id

\* the collection the last initializeItems call returned
Returned == SubSeq(items, Len(items) - Len(call.input) + 1, Len(items))

\* C18: initializeItems(names) returns one item per name, in the same order
\* and with the same name, each with rating 1500 and comparisons 0 and with
\* pairwise distinct ids within the returned collection, repeated names
\* included; the empty list gives the empty collection.
C18_OneFreshItemPerName ==
  call.op = "initializeItems"
  => /\ Len(Returned) = Len(call.input)
     /\ \A p \in 1..Len(call.input) :
          /\ Returned[p].name = call.input[p]
          /\ Returned[p].rating = 1500
          /\ Returned[p].comparisons = 0
     /\ \A p, q \in 1..Len(Returned) :
          p # q => Returned[p].id # Returned[q].id
     /\ call.input = <<>> => Returned = <<>>

\* a call with a repeated name
C18_Witness ==
  /\ call.op = "initializeItems"
  /\ call.input = <<"A", "B", "A">>
  /\ Len(Returned) = 3
  /\ Returned[1].id # Returned[3].id

\* C19: getRankedItems(items) returns a permutation of the input ordered by
\* non-increasing rating in which items of equal rating keep their relative
\* input order, and leaves the input collection's order and contents as they
\* were.
C19_StableSortedCopy ==
  call.op = "getRankedItems"
  => /\ Len(ranked) = Len(call.input)
     /\ \A p \in 1..Len(call.input) :
          \E q \in 1..Len(ranked) : ranked[q] = call.input[p]
     /\ \A p, q \in 1..Len(ranked) :
          p < q => /\ ranked[p].rating >= ranked[q].rating
                   /\ ranked[p].rating = ranked[q].rating
                        => Find(call.input, ranked[p].id)
                             < Find(call.input, ranked[q].id)
     /\ items = call.input

\* an unsorted input with a tie: the two tied items keep their order behind
\* the higher-rated one, and the input stays unsorted
C19_Witness ==
  /\ call.op = "getRankedItems"
  /\ Len(call.input) = 3
  /\ call.input[1].rating = 780
  /\ call.input[2].rating = 1500
  /\ call.input[3].rating = 780
  /\ ranked = <<call.input[2], call.input[1], call.input[3]>>
  /\ items = call.input

\* the winner was rated below the loser
Upset ==
  /\ DistinctKnownIds
  /\ Before(call.winnerId) < Before(call.loserId)

\* C20 as stated: in an upset the winner's gain and the loser's loss are each
\* strictly larger than 16, the swing of two equally rated items with K = 32,
\* also when the ratings differ by a single point.
C20_UpsetStrictlyLarger ==
  Upset
  => /\ After(call.winnerId) - Before(call.winnerId) > 16
     /\ Before(call.loserId) - After(call.loserId) > 16

\* C20 as amended: in an upset the gain and the loss are never below 16; they
\* are strictly larger than 16 when the loser was rated 11 or more above the
\* winner, and exactly 16 when the difference is 1 to 10 points.
C20_UpsetLargerFromEleven ==
  Upset
  => IF Before(call.loserId) - Before(call.winnerId) >= 11
     THEN /\ After(call.winnerId) - Before(call.winnerId) > 16
          /\ Before(call.loserId) - After(call.loserId) > 16
     ELSE /\ After(call.winnerId) - Before(call.winnerId) = 16
          /\ Before(call.loserId) - After(call.loserId) = 16

\* an upset by a single point: the swing is 16, as between equals
C20_Witness ==
  /\ Upset
  /\ Before(call.loserId) - Before(call.winnerId) = 1
  /\ After(call.winnerId) - Before(call.winnerId) = 16
  /\ Before(call.loserId) - After(call.loserId) = 16

\* C21: estimateComparisonsNeeded(n) is 2n, and the estimatedComparisons of
\* getUserListsWithStatus and the progress estimate of RankScreen equal
\* estimateComparisonsNeeded(itemCount) for the same item count.
C21_TwoPerItemEverywhere ==
  pc = "returned"
  => /\ estimate = 2 * Len(items)
     /\ estimate = estimateComparisonsNeeded(Len(items))

\* the progress estimate of RankScreen for ten items
C21_Witness ==
  /\ call.op = "RankScreen.render"
  /\ Len(items) = 10
  /\ estimate = 20

\* C22: for all integer ratings a and b, expectedScore(a, b) +
\* expectedScore(b, a) equals 1, and expectedScore(r, r) is exactly 0.5.
C22_ScoresSumToOne ==
  call.op = "expectedScore"
  => /\ QuotientIs(QuotientPlus(score.ab, score.ba), 1, 1)
     /\ QuotientIs(score.aa, 1, 2)

\* a favourite 720 points above the underdog
C22_Witness ==
  /\ call.op = "expectedScore"
  /\ call.input[1].rating - call.input[2].rating = 720
  /\ score.ab # score.ba
  /\ QuotientIs(QuotientPlus(score.ab, score.ba), 1, 1)

RECURSIVE SumComparisons(_)
SumComparisons(its) ==
  IF its = <<>> THEN 0
  ELSE Head(its).comparisons + SumComparisons(Tail(its))

\* C27: every applyComparison call that does not fail involves two distinct
\* items: it raises the comparisons of exactly two items, by one each, and
\* the sum of comparisons by exactly 2; a call whose winnerId equals its
\* loserId is not accepted.
C27_TwoDistinctItems ==
  (call.op = "applyComparison" /\ ~applied.threw)
  => /\ call.winnerId # call.loserId
     /\ Cardinality({p \in 1..Len(call.input) :
                       applied.value[p].comparisons
                         = call.input[p].comparisons + 1}) = 2
     /\ Cardinality({p \in 1..Len(call.input) :
                       applied.value[p] # call.input[p]}) <= 2
     /\ SumComparisons(applied.value) = SumComparisons(call.input) + 2

\* the unordered pairs (as sets of ids) lib selectNextPair can return
LibPairs(its) ==
  {{selectNextPair(its, pick, TRUE)[1].id, selectNextPair(its, pick, TRUE)[2].id}
     : pick \in Picks(its)}

\* the unordered pairs RankScreen's selection can put in currentPair
ScreenPairs(its) ==
  {{its[screenSelectNextPair(its, FALSE, pick, TRUE, <<>>)[1]].id,
    its[screenSelectNextPair(its, FALSE, pick, TRUE, <<>>)[2]].id}
     : pick \in ScreenPicks(its, FALSE)}

\* C28: with the express filter off, for every collection with unique ids
\* the set of unordered pairs RankScreen's selection can yield equals the set
\* lib selectNextPair can return, ties in rating distance included.
C28_ScreenSelectsAsLib ==
  (/\ call.op = "RankScreen.selectNextPair"
   /\ ~call.skipObvious
   /\ Len(call.input) >= 2)
  => /\ ScreenPairs(call.input) = LibPairs(call.input)
     /\ {call.input[currentPair[1]].id, call.input[currentPair[2]].id}
          \in LibPairs(call.input)

\* the ranked_items row of an item
StoredRow(id) == stored.rows[CHOOSE p \in 1..Len(stored.rows) : stored.rows[p].id = id]

\* C24: once a handleChoice call has finished, the rating and comparisons
\* stored in ranked_items for the two items of the pair and the stored
\* comparisons_count equal the local rankedItems and comparisons, whatever
\* the outcome of the persistence calls.
C24_ProgressSavedAfterEachChoice ==
  call.op = "handleChoice"
  => /\ stored.count = comparisons
     /\ \A p \in 1..Len(items) :
          (\E q \in 1..Len(stored.rows) : stored.rows[q].id = items[p].id)
          => /\ StoredRow(items[p].id).rating = items[p].rating
             /\ StoredRow(items[p].id).comparisons = items[p].comparisons

\* C23: RankScreen serializes judgments: no second handleChoice runs while an
\* earlier one is awaiting its persistence calls, and a handleChoice that
\* will select the next pair does so from the current rankedItems.
C23_ChoicesSerialized ==
  /\ InFlight("handleChoice") <= 1
  /\ \A i \in 1..Len(tasks) :
       tasks[i].op = "handleChoice" => tasks[i].captured = items

\* C25: in every reachable state of a session, isComplete implies that every
\* item of rankedItems has comparisons >= 2.
C25_CompleteMeansAllTwice ==
  isComplete => \A p \in 1..Len(items) : items[p].comparisons >= 2

\* C26: once loadList has finished, and after every later add or remove, the
\* screen is not left on the loading indicator with isComplete = false and
\* currentPair = null and nothing the user can do: some handler of the screen
\* is available.
C26_NeverStuckOnSpinner ==
  View = "spinner" => ENABLED NextScreen

\* the ranked_items rows of a ranking for a list item
RankedRows(rankingId, itemId) ==
  {p \in 1..Len(stored.rows) :
     /\ stored.rows[p].ranking_id = rankingId
     /\ stored.rows[p].item_id = itemId}

\* C29: after any number of createRanking calls for the same (listId,
\* userId), sequential or overlapping, one rankings row exists for the pair,
\* every call that returned returned that row, and once no call is in flight
\* ranked_items holds one row per list item for it (rating 1500,
\* comparisons 0).
C29_GetOrCreate ==
  /\ Len(rankings) <= 1
  /\ \A i \in 1..Len(tasks) :
       tasks[i].at = "returned" => tasks[i].ranking = rankings[1].id
  /\ (/\ \E i \in 1..Len(tasks) : tasks[i].at = "returned"
      /\ \A i \in 1..Len(tasks) : tasks[i].at \in {"returned", "threw"})
     => \A p \in 1..Len(items) :
          Cardinality(RankedRows(rankings[1].id, items[p].id)) = 1

\* the calls on the existing ranking that have completed
Completed ==
  {i \in 1..Len(tasks) :
     /\ tasks[i].op = "incrementComparisonsCount"
     /\ tasks[i].at = "returned"
     /\ tasks[i].ranking = rankings[1].id}

\* C30: once no incrementComparisonsCount call is in flight, the stored
\* comparisons_count has grown by the number of calls completed on the
\* ranking, sequential or overlapping; calls for a ranking that does not
\* exist change nothing.
C30_CountsEveryCall ==
  (/\ rankings # <<>>
   /\ \A i \in 1..Len(tasks) : tasks[i].at = "returned")
  => rankings[1].comparisons_count = comparisons + Cardinality(Completed)

====
